---- MODULE Spec2Model ----
(***************************************************************************)
(* The notification log of nflog/nflog.go: a map from stateKey(group key,  *)
(* receiver) to the latest MeshEntry, written by LogActive/LogResolved,    *)
(* merged with gossip payloads (last writer wins), pruned by GC and        *)
(* maintained by a background loop.                                        *)
(*                                                                         *)
(* Time is an integer number of clock units (time.Time / the protobuf      *)
(* Timestamp of whole units); every instant the model draws is one that    *)
(* ptypes.Timestamp and ptypes.TimestampProto accept, so their error       *)
(* returns (nflog.go:263-266, 272-279, 303-304) are not taken.             *)
(***************************************************************************)
EXTENDS Integers, Sequences, FiniteSets, TLC

\* ---------------------------------------------------------------- bounds
MaxTime == 1          \* clock readings and gossip timestamps are 0..MaxTime
MaxRetention == 1     \* retention durations are 0..MaxRetention

\* ---------------------------------------------------------------- values
GroupKeys == {"g1", "g2"}
Receivers == {"r1"}
GroupHashes == {"h1"}
Times == 0..MaxTime
Retentions == 0..MaxRetention
Nil == "nil"
NoTime == 0 - 1          \* below every clock reading: no timestamp

\* errors.New("not found"), nflog.go:20
ErrNotFound == "not found"
\* errors.New("no query parameters specified"), nflog.go:327
ErrBadQuery == "no query parameters specified"
\* the error pbutil.ReadDelimited returns on malformed input, nflog.go:431-435
ErrDecode == "decode"

\* time.Time.After / time.Time.Before as used at nflog.go:267, 305, 500, 528
After(a, b) == a > b
Before(a, b) == a < b

Max(a, b) == IF a >= b THEN a ELSE b

\* fmt.Sprintf("%s:%s", k, r)
stateKey(k, r) == k \o ":" \o r

Keys == {stateKey(k, r) : k \in GroupKeys, r \in Receivers}

\* map[string]*pb.MeshEntry{} / gossipData{}
EmptyGD == [k \in {} |-> Nil]

\* gd[key] = e on a Go map
Put(gd, key, e) ==
    [k \in DOMAIN gd \cup {key} |-> IF k = key THEN e ELSE gd[k]]

\* delete(gd, k) for every k of ks
Delete(gd, ks) == [k \in DOMAIN gd \ ks |-> gd[k]]

\* &pb.MeshEntry{Entry: &pb.Entry{...}, ExpiresAt: ...}
MeshEntry(r, gkey, ghash, resolved, ts, exp) ==
    [Entry |-> [Receiver |-> r, GroupKey |-> gkey, GroupHash |-> ghash,
                Resolved |-> resolved, Timestamp |-> ts],
     ExpiresAt |-> exp]

\* the map key an entry is filed under when it is decoded or loaded
entryKey(e) == stateKey(e.Entry.GroupKey, e.Entry.Receiver)

\* ------------------------------------------------------------ nlog.log
\* log without the "only overwrite if timestamp is newer" guard
logNoGuard(gd, r, gkey, ghash, resolved, now, ret) ==
    Put(gd, stateKey(gkey, r), MeshEntry(r, gkey, ghash, resolved, now, now + ret))

\* log that also skips when the stored timestamp equals now
logSkipsEqual(gd, r, gkey, ghash, resolved, now, ret) ==
    LET key == stateKey(gkey, r) IN
    IF key \in DOMAIN gd /\ ~Before(gd[key].Entry.Timestamp, now)
    THEN gd
    ELSE Put(gd, key, MeshEntry(r, gkey, ghash, resolved, now, now + ret))

\* The state map after log(r, gkey, ghash, resolved) read the clock as now.
log(gd, r, gkey, ghash, resolved, now, ret) ==
    LET key == stateKey(gkey, r) IN
    IF key \in DOMAIN gd /\ After(gd[key].Entry.Timestamp, now)
    THEN gd
    ELSE Put(gd, key, MeshEntry(r, gkey, ghash, resolved, now, now + ret))

\* ------------------------------------------------------------- nlog.GC
\* GC that keeps an entry expiring exactly now
gcExpiredStrict(gd, now) == {k \in DOMAIN gd : Before(gd[k].ExpiresAt, now)}

\* GC that compares the entry's timestamp instead of its expiry
gcExpiredByTimestamp(gd, now) ==
    {k \in DOMAIN gd : ~After(gd[k].Entry.Timestamp, now)}

\* The keys GC deletes when it read the clock as now.
gcExpired(gd, now) == {k \in DOMAIN gd : ~After(gd[k].ExpiresAt, now)}

\* ----------------------------------------------------------- nlog.Query
\* Query that only checks the receiver parameter
queryResultRecvOnly(gd, recv, groupKey) ==
    IF recv = Nil
    THEN [ret |-> <<>>, err |-> ErrBadQuery]
    ELSE IF stateKey(groupKey, recv) \in DOMAIN gd
    THEN [ret |-> <<gd[stateKey(groupKey, recv)].Entry>>, err |-> Nil]
    ELSE [ret |-> <<>>, err |-> ErrNotFound]

\* Query's result for the query descriptor (recv, groupKey); Nil is unset.
queryResult(gd, recv, groupKey) ==
    IF recv = Nil \/ groupKey = Nil
    THEN [ret |-> <<>>, err |-> ErrBadQuery]
    ELSE IF stateKey(groupKey, recv) \in DOMAIN gd
    THEN [ret |-> <<gd[stateKey(groupKey, recv)].Entry>>, err |-> Nil]
    ELSE [ret |-> <<>>, err |-> ErrNotFound]

\* ------------------------------------------------------ gossip payloads
\* A payload is the framed records it holds, in order, and whether malformed
\* bytes follow them.
RECURSIVE decodeRecs(_, _)
decodeRecs(recs, gd) ==
    IF recs = <<>> THEN gd
    ELSE decodeRecs(Tail(recs), Put(gd, entryKey(Head(recs)), Head(recs)))

decodeGossipData(msg) ==
    [gd |-> decodeRecs(msg.recs, EmptyGD),
     err |-> IF msg.bad THEN ErrDecode ELSE Nil]

\* the comparison of mergeDelta with its operands swapped
mergeReplacesSwapped(gd, od, k) ==
    k \notin DOMAIN gd \/ Before(od[k].Entry.Timestamp, gd[k].Entry.Timestamp)

\* gossipData.mergeDelta: the merged map and the delta it returns
mergeReplaces(gd, od, k) ==
    k \notin DOMAIN gd \/ Before(gd[k].Entry.Timestamp, od[k].Entry.Timestamp)

\* mergeDelta that leaves the entries it inserts out of the delta
mergeDeltaOmitsInserts(gd, od) ==
    LET changed == {k \in DOMAIN od : mergeReplaces(gd, od, k)} IN
    [gd |-> [k \in DOMAIN gd \cup DOMAIN od |->
                IF k \in changed THEN od[k] ELSE gd[k]],
     delta |-> [k \in changed \cap DOMAIN gd |-> od[k]]]

mergeDelta(gd, od) ==
    LET changed == {k \in DOMAIN od : mergeReplaces(gd, od, k)} IN
    [gd |-> [k \in DOMAIN gd \cup DOMAIN od |->
                IF k \in changed THEN od[k] ELSE gd[k]],
     delta |-> [k \in changed |-> od[k]]]

\* gossipData.Merge: the receiver after the call, which is also returned
Merge(gd, od) ==
    [k \in DOMAIN gd \cup DOMAIN od |->
        IF k \notin DOMAIN gd THEN od[k]
        ELSE IF k \in DOMAIN od
                /\ Before(gd[k].Entry.Timestamp, od[k].Entry.Timestamp)
        THEN od[k]
        ELSE gd[k]]

\* OnGossip that hands back the delta map even when it is empty
OnGossipResultAlwaysDelta(gd, msg) ==
    LET dec == decodeGossipData(msg)
        m == mergeDelta(gd, dec.gd)
    IN  IF dec.err # Nil
        THEN [st |-> gd, delta |-> EmptyGD, isnil |-> TRUE, err |-> dec.err]
        ELSE [st |-> m.gd, delta |-> m.delta, isnil |-> FALSE, err |-> Nil]

\* nlog.OnGossip(msg) on state map gd: the state map afterwards, the delta
\* returned, whether the returned GossipData is nil, and the error
OnGossipResult(gd, msg) ==
    LET dec == decodeGossipData(msg)
        m == mergeDelta(gd, dec.gd)
    IN  IF dec.err # Nil
        THEN [st |-> gd, delta |-> EmptyGD, isnil |-> TRUE, err |-> dec.err]
        ELSE IF Cardinality(DOMAIN m.delta) > 0
        THEN [st |-> m.gd, delta |-> m.delta, isnil |-> FALSE, err |-> Nil]
        ELSE [st |-> m.gd, delta |-> EmptyGD, isnil |-> TRUE, err |-> Nil]

\* nlog.OnGossipBroadcast(src, msg) on state map gd
OnGossipBroadcastResult(gd, msg) ==
    LET dec == decodeGossipData(msg)
        m == mergeDelta(gd, dec.gd)
    IN  IF dec.err # Nil
        THEN [st |-> gd, delta |-> EmptyGD, isnil |-> TRUE, err |-> dec.err]
        ELSE [st |-> m.gd, delta |-> m.delta, isnil |-> FALSE, err |-> Nil]

\* ---------------------------------------------------- gossipData.Encode
\* const maxSize = 1024 * 1024
maxSize == 1024 * 1024

\* group keys of half the block limit, for the maps handed to Encode
LongKeys == {"g3", "g4", "g5", "g6"}

\* The bytes pbutil.WriteDelimited writes for an entry: its length prefix and
\* fixed fields, and its group key.  Group key "g2" stands for a key of 1 MiB,
\* the keys of LongKeys for keys of 512 KiB.
GroupKeyLen ==
    [k \in GroupKeys \cup LongKeys |->
        IF k = "g2" THEN 1024 * 1024
        ELSE IF k \in LongKeys THEN 512 * 1024
        ELSE 2]
wireSize(e) == 32 + GroupKeyLen[e.Entry.GroupKey]

\* The orders in which a range over the map can visit its entries.
RECURSIVE Orders(_)
Orders(gd) ==
    IF DOMAIN gd = {} THEN {<<>>}
    ELSE UNION {{<<gd[k]>> \o s : s \in Orders(Delete(gd, {k}))} :
                    k \in DOMAIN gd}

\* The loop of Encode over the remaining entries: buf is the buffer's records,
\* n the running byte count, res the blocks emitted so far.
RECURSIVE encodeLoop(_, _, _, _)
encodeLoop(order, buf, n, res) ==
    IF order = <<>>
    THEN IF buf # <<>> THEN Append(res, buf) ELSE res
    ELSE LET e == Head(order)
             m == wireSize(e)
         IN  IF n + m > maxSize
             THEN encodeLoop(Tail(order), <<>>, n + m, Append(res, Append(buf, e)))
             ELSE encodeLoop(Tail(order), Append(buf, e), n + m, res)

Encode(order) == encodeLoop(order, <<>>, 0, <<>>)

\* nlog.Gossip: a copy of the state map
Gossip(gd) == [k \in DOMAIN gd |-> gd[k]]

\* the blocks a replica holding gd can hand to the transport
Blocks(gd) ==
    UNION {{Encode(o)[i] : i \in DOMAIN Encode(o)} : o \in Orders(Gossip(gd))}

\* ---------------------------------------------------------- snapshots
\* the bytes pbutil.WriteDelimited reports for a sequence of entries
RECURSIVE written(_)
written(recs) ==
    IF recs = <<>> THEN 0 ELSE wireSize(Head(recs)) + written(Tail(recs))

\* nlog.Snapshot(w) when the map is iterated in the given order and the
\* fail-th write returns an error (0: none does): the records w received,
\* the byte count and the error returned
Snapshot(order, fail) ==
    IF fail = 0
    THEN [recs |-> order, n |-> written(order), err |-> Nil]
    ELSE [recs |-> SubSeq(order, 1, fail - 1),
          n |-> written(SubSeq(order, 1, fail - 1)), err |-> "write"]

\* loadSnapshot that files an entry under its group key alone
loadSnapshotByGroupKey(recs) ==
    [k \in {recs[i].Entry.GroupKey : i \in DOMAIN recs} |->
        recs[CHOOSE i \in DOMAIN recs :
                /\ recs[i].Entry.GroupKey = k
                /\ \A j \in DOMAIN recs :
                      recs[j].Entry.GroupKey = k => j <= i]]

\* nlog.loadSnapshot: the state map read from a file's records
loadSnapshot(recs) == decodeRecs(recs, EmptyGD)

\* --------------------------------------------------------------- state
VARIABLES
    st,         \* l.st, the state map of the log
    retention,  \* l.retention
    last,       \* the last call on the log: its inputs and what it returned
    proposed,   \* per key, the largest timestamp proposed so far (NoTime: none)
    visible,    \* per key, the largest timestamp the map has held (NoTime: none)
    cluster,    \* two replicas: the state map of each
    net,        \* gossip payloads in flight between them: [to, msg]
    pc,         \* per calling thread, where it is in log()
    call,       \* per calling thread, its arguments and clock reading
    mtx,        \* l.mtx: the thread holding the write lock, the read holders
    mpc,        \* where run() is
    conf,       \* what WithMaintenance set: runInterval, stopc, done, snapf
    stopSig,    \* a receive from l.stopc can proceed
    doneCalls,  \* how often l.done was invoked
    disk,       \* the file at l.snapf
    tmp,        \* the temporary file openReplace created last
    merged,     \* a payload the log merged since the last GC, and whether it
                \* was delivered again
    snapped,    \* the state map the last Snapshot of a pass iterated
    handles,    \* the files the log holds open
    rw,         \* per calling thread, the operation it is in and what it read
    operands,   \* the state maps handed to Merge, mergeDelta and Encode
    out         \* what the last of these calls returned

coreVars == <<st, retention, last, proposed, visible>>
convVars == <<cluster, net>>
concVars == <<pc, call, mtx>>
maintVars == <<mpc, conf, stopSig, doneCalls, disk, tmp>>
auxVars == <<merged, snapped, handles, rw, operands, out>>

vars == <<coreVars, convVars, concVars, maintVars, auxVars>>

Replicas == {"A", "B"}
MaxNet == 1           \* payloads in flight at once

NoCall == [op |-> "New", recv |-> Nil, gkey |-> Nil, hash |-> Nil,
           now |-> NoTime, err |-> Nil, n |-> 0, ret |-> <<>>,
           delta |-> EmptyGD, isnil |-> FALSE]

\* the key the last call was about
LastKey == stateKey(last.gkey, last.recv)

\* the largest timestamp each key has held, after the map became gd
Observe(seen, gd) ==
    [k \in Keys |-> IF k \in DOMAIN gd
                    THEN Max(seen[k], gd[k].Entry.Timestamp) ELSE seen[k]]

\* the timestamps a payload's records propose for key k
RecTimes(recs, k) ==
    {recs[i].Entry.Timestamp : i \in {j \in DOMAIN recs : entryKey(recs[j]) = k}}

SetMax(S, d) == IF S = {} THEN d ELSE CHOOSE x \in S : \A y \in S : y <= x

\* The entries a peer holds and the payloads its Encode emits: at most one
\* record per key of the peer's map, in the order the map was iterated.  Every
\* replica of the cluster runs with the same retention.
PeerEntries(ret) ==
    {MeshEntry(r, k, h, res, t, t + ret) :
        r \in Receivers, k \in GroupKeys, h \in GroupHashes, res \in BOOLEAN,
        t \in Times}

RECURSIVE SeqsUpTo(_, _)
SeqsUpTo(S, n) ==
    IF n = 0 THEN {<<>>}
    ELSE LET shorter == SeqsUpTo(S, n - 1) IN
         shorter \cup {Append(s, e) : s \in {t \in shorter : Len(t) = n - 1},
                                      e \in S}

DistinctKeys(recs) ==
    \A i, j \in DOMAIN recs : i # j => entryKey(recs[i]) # entryKey(recs[j])

\* well-formed payloads, and payloads whose first or second record is cut short
PayloadsOf(ret) ==
    {[recs |-> s, bad |-> FALSE] :
        s \in {t \in SeqsUpTo(PeerEntries(ret), Cardinality(Keys)) :
                    DistinctKeys(t)}}
    \cup {[recs |-> s, bad |-> TRUE] : s \in SeqsUpTo(PeerEntries(ret), 1)}

Payloads == [ret \in Retentions |-> PayloadsOf(ret)]

Threads == {"t1", "t2"}
\* a file: whether it exists, and the records written to it
NoFile == [exists |-> FALSE, recs |-> <<>>]
File(recs) == [exists |-> TRUE, recs |-> recs]
NoArgs == [recv |-> Nil, gkey |-> Nil, hash |-> Nil, resolved |-> FALSE,
           now |-> NoTime, err |-> Nil]
Unlocked == [w |-> Nil, r |-> {}]

\* no payload remembered; no operation in progress; no operands
NoMsg == [set |-> FALSE, msg |-> [recs |-> <<>>, bad |-> FALSE], again |-> FALSE]
NoOp == [op |-> Nil]
AuxIdle ==
    /\ merged = NoMsg
    /\ snapped = EmptyGD
    /\ handles = {}
    /\ rw = [t \in Threads |-> NoOp]
    /\ out = <<>>

\* New() without WithMaintenance: run() returns at once
NoMaintenance == [runInterval |-> 0, stopc |-> FALSE, done |-> FALSE, snapf |-> ""]

\* everything but the log's own fields, as New() leaves it
Idle ==
    /\ last = NoCall
    /\ proposed = [k \in Keys |-> NoTime]
    /\ visible = [k \in Keys |-> NoTime]
    /\ cluster = [i \in Replicas |-> EmptyGD]
    /\ net = {}
    /\ pc = [t \in Threads |-> "idle"]
    /\ call = [t \in Threads |-> NoArgs]
    /\ mtx = Unlocked
    /\ stopSig = FALSE
    /\ doneCalls = 0
    /\ disk = NoFile
    /\ tmp = NoFile
    /\ AuxIdle

Init ==
    /\ st = EmptyGD
    /\ retention \in Retentions
    /\ conf = NoMaintenance
    /\ mpc = "returned"
    /\ Idle
    /\ operands = <<>>

\* ------------------------------------------------------------- actions
Logged(op, r, gkey, ghash, resolved, now) ==
    /\ st' = log(st, r, gkey, ghash, resolved, now, retention)
    /\ last' = [NoCall EXCEPT !.op = op, !.recv = r, !.gkey = gkey,
                              !.hash = ghash, !.now = now]
    /\ proposed' = [proposed EXCEPT ![stateKey(gkey, r)] = Max(@, now)]
    /\ visible' = Observe(visible, st')
    /\ UNCHANGED <<auxVars, retention, convVars, concVars, maintVars>>

LogActive ==
    \E r \in Receivers, gkey \in GroupKeys, ghash \in GroupHashes, now \in Times :
        Logged("LogActive", r, gkey, ghash, FALSE, now)

LogResolved ==
    \E r \in Receivers, gkey \in GroupKeys, ghash \in GroupHashes, now \in Times :
        Logged("LogResolved", r, gkey, ghash, TRUE, now)

GC ==
    \E now \in Times :
        LET dead == gcExpired(st, now) IN
        /\ st' = Delete(st, dead)
        /\ last' = [NoCall EXCEPT !.op = "GC", !.now = now,
                                  !.n = Cardinality(dead)]
        /\ UNCHANGED <<auxVars, retention, proposed, visible, convVars, concVars, maintVars>>

Query ==
    \E recv \in Receivers \cup {Nil}, groupKey \in GroupKeys \cup {Nil} :
        LET q == queryResult(st, recv, groupKey) IN
        /\ last' = [NoCall EXCEPT !.op = "Query", !.recv = recv,
                        !.gkey = groupKey, !.err = q.err, !.ret = q.ret,
                        !.n = Len(q.ret)]
        /\ UNCHANGED <<auxVars, st, retention, proposed, visible, convVars, concVars, maintVars>>

Gossiped(op, msg) ==
    LET res == IF op = "OnGossip" THEN OnGossipResult(st, msg)
               ELSE OnGossipBroadcastResult(st, msg)
    IN  IF res.err # Nil
        THEN /\ last' = [NoCall EXCEPT !.op = op, !.err = res.err, !.isnil = TRUE]
             /\ UNCHANGED <<snapped, handles, rw, operands, out, st, retention, proposed, visible, convVars, concVars, maintVars>>
        ELSE /\ st' = res.st
             /\ last' = [NoCall EXCEPT !.op = op,
                            !.n = Cardinality(DOMAIN res.delta),
                            !.delta = res.delta,
                            !.isnil = res.isnil]
             /\ proposed' = [k \in Keys |->
                                SetMax(RecTimes(msg.recs, k) \cup {proposed[k]},
                                       NoTime)]
             /\ visible' = Observe(visible, st')
             /\ UNCHANGED <<snapped, handles, rw, operands, out, retention, convVars, concVars, maintVars>>

OnGossip ==
    \E msg \in Payloads[retention] :
        Gossiped("OnGossip", msg) /\ UNCHANGED merged

OnGossipBroadcast ==
    \E msg \in Payloads[retention] :
        Gossiped("OnGossipBroadcast", msg) /\ UNCHANGED merged

\* One replica: every operation of the log, in any order.
Next ==
    \/ OnGossip
    \/ OnGossipBroadcast
    \/ LogActive
    \/ LogResolved
    \/ GC
    \/ Query

Spec == Init /\ [][Next]_vars

\* One replica on which GC never runs.
NextMerge ==
    \/ LogActive
    \/ LogResolved
    \/ Query
    \/ OnGossip
    \/ OnGossipBroadcast

SpecMerge == Init /\ [][NextMerge]_vars

\* A delivery after which the transport may keep the payload to deliver it
\* again: merged remembers one payload that decoded and was merged, any one of
\* a run.
Deliver(op) ==
    \E msg \in Payloads[retention] :
        /\ Gossiped(op, msg)
        /\ \/ UNCHANGED merged
           \/ /\ ~merged.set
              /\ decodeGossipData(msg).err = Nil
              /\ merged' = [set |-> TRUE, msg |-> msg, again |-> FALSE]

\* The transport delivers the remembered payload a second time.
Redeliver(op) ==
    /\ merged.set
    /\ ~merged.again
    /\ Gossiped(op, merged.msg)
    /\ merged' = [merged EXCEPT !.again = TRUE]

\* One replica on which GC never runs and payloads can arrive twice.
NextDup ==
    \/ LogActive
    \/ LogResolved
    \/ Deliver("OnGossip")
    \/ Deliver("OnGossipBroadcast")
    \/ Redeliver("OnGossip")
    \/ Redeliver("OnGossipBroadcast")

SpecDup == Init /\ [][NextDup]_vars

\* Snapshot(w) on the log: out is what w received.
TakeSnapshot ==
    /\ out = <<>>
    /\ \E order \in Orders(st) : \E fail \in 0..Len(order) :
          LET w == Snapshot(order, fail) IN
          /\ out' = <<w>>
          /\ last' = [NoCall EXCEPT !.op = "Snapshot", !.n = w.n, !.err = w.err]
    /\ UNCHANGED <<st, retention, proposed, visible, convVars, concVars,
                   maintVars, merged, snapped, handles, rw, operands>>

\* A fresh log is constructed from what Snapshot wrote (New, loadSnapshot)
\* and takes the place of the old one.
Restore ==
    /\ out # <<>>
    /\ st' = loadSnapshot(out[1].recs)
    /\ last' = [NoCall EXCEPT !.op = "loadSnapshot"]
    /\ out' = <<>>
    /\ UNCHANGED <<retention, proposed, visible, convVars, concVars,
                   maintVars, merged, snapped, handles, rw, operands>>

\* One replica that is snapshotted and restored between its calls.
NextSnap ==
    \/ out = <<>> /\ Next
    \/ TakeSnapshot
    \/ Restore

SpecSnap == Init /\ [][NextSnap]_vars

\* One replica that receives no gossip.
NextLocal ==
    \/ LogActive
    \/ LogResolved
    \/ GC
    \/ Query

SpecLocal == Init /\ [][NextLocal]_vars

\* --------------------------------------------------------- two replicas
\* LogActive / LogResolved on replica i
ReplicaLogActive(i) ==
    \E r \in Receivers, gkey \in GroupKeys, ghash \in GroupHashes, now \in Times :
        /\ cluster' = [cluster EXCEPT
                          ![i] = log(@, r, gkey, ghash, FALSE, now, retention)]
        /\ UNCHANGED <<auxVars, coreVars, net, concVars, maintVars>>

ReplicaLogResolved(i) ==
    \E r \in Receivers, gkey \in GroupKeys, ghash \in GroupHashes, now \in Times :
        /\ cluster' = [cluster EXCEPT
                          ![i] = log(@, r, gkey, ghash, TRUE, now, retention)]
        /\ UNCHANGED <<auxVars, coreVars, net, concVars, maintVars>>

\* The transport takes replica i's full state (Gossip, then Encode) and sends
\* one of its blocks to the other replica.
ReplicaGossip(i) ==
    \E b \in Blocks(cluster[i]) : \E j \in Replicas \ {i} :
        /\ Cardinality(net \cup {[to |-> j, msg |-> [recs |-> b, bad |-> FALSE]]})
              <= MaxNet
        /\ net' = net \cup {[to |-> j, msg |-> [recs |-> b, bad |-> FALSE]]}
        /\ UNCHANGED <<auxVars, coreVars, cluster, concVars, maintVars>>

\* the state map of a replica after OnGossip / OnGossipBroadcast of msg
received(gd, msg) ==
    LET dec == decodeGossipData(msg) IN
    IF dec.err # Nil THEN gd ELSE mergeDelta(gd, dec.gd).gd

\* A payload in flight is delivered; the transport may deliver it again.
ReplicaOnGossip(j) ==
    \E m \in net :
        /\ m.to = j
        /\ cluster' = [cluster EXCEPT ![j] = received(@, m.msg)]
        /\ UNCHANGED <<auxVars, coreVars, net, concVars, maintVars>>

ReplicaOnGossipBroadcast(j) ==
    \E m \in net :
        /\ m.to = j
        /\ cluster' = [cluster EXCEPT ![j] = received(@, m.msg)]
        /\ UNCHANGED <<auxVars, coreVars, net, concVars, maintVars>>

\* The transport is done with a payload.
Forget ==
    \E m \in net :
        /\ net' = net \ {m}
        /\ UNCHANGED <<auxVars, coreVars, cluster, concVars, maintVars>>

NextConv ==
    \/ \E i \in Replicas : ReplicaLogActive(i)
    \/ \E i \in Replicas : ReplicaLogResolved(i)
    \/ \E i \in Replicas : ReplicaGossip(i)
    \/ \E i \in Replicas : ReplicaOnGossip(i)
    \/ \E i \in Replicas : ReplicaOnGossipBroadcast(i)
    \/ Forget

SpecConv == Init /\ [][NextConv]_vars

\* No payload in flight and no block of either replica's full state changes
\* the other replica.
Quiesced ==
    /\ \A m \in net : received(cluster[m.to], m.msg) = cluster[m.to]
    /\ \A i \in Replicas : \A j \in Replicas \ {i} :
          \A b \in Blocks(cluster[i]) :
              received(cluster[j], [recs |-> b, bad |-> FALSE]) = cluster[j]

\* --------------------------------------------------- maintenance loop
\* what WithMaintenance can be given
Configs ==
    [runInterval : {0, 1}, stopc : BOOLEAN, done : BOOLEAN, snapf : {"", "snap"}]

\* the snapshot files New() can find: absent, empty, or one entry
SnapshotFiles(ret) ==
    {NoFile, File(<<>>), File(<<MeshEntry("r1", "g1", "h1", FALSE, 0, 0 + ret)>>)}

\* New(WithMaintenance(...), WithRetention(...)): the snapshot is loaded when
\* snapf is set, and run() is started unless opening or loading it failed.
InitMaint ==
    /\ retention \in Retentions
    /\ conf \in Configs
    /\ disk \in SnapshotFiles(retention)
    /\ conf.snapf = "" => disk = NoFile
    /\ st = IF disk = NoFile THEN EmptyGD ELSE loadSnapshot(disk.recs)
    /\ mpc = IF conf.snapf # "" /\ disk = NoFile THEN "returned" ELSE "start"
    /\ last = NoCall
    /\ proposed = [k \in Keys |-> NoTime]
    /\ visible = [k \in Keys |-> NoTime]
    /\ cluster = [i \in Replicas |-> EmptyGD]
    /\ net = {}
    /\ pc = [t \in Threads |-> "idle"]
    /\ call = [t \in Threads |-> NoArgs]
    /\ mtx = Unlocked
    /\ stopSig = FALSE
    /\ doneCalls = 0
    /\ tmp = NoFile
    /\ AuxIdle
    /\ operands = <<>>

\* the guard of run() without its stop-channel half
runDisabledIntervalOnly(c) == c.runInterval = 0

\* line 189: if l.runInterval == 0 || l.stopc == nil
runDisabled(c) == c.runInterval = 0 \/ ~c.stopc

\* lines 189-197: the checks of run(), the ticker, the deferred done
RunStart ==
    /\ mpc = "start"
    /\ mpc' = IF runDisabled(conf) THEN "returned" ELSE "select"
    /\ UNCHANGED <<auxVars, coreVars, convVars, concVars, conf, stopSig, doneCalls, disk,
                   tmp>>

\* The owner of the stop channel closes it.
Stop ==
    /\ conf.stopc
    /\ ~stopSig
    /\ stopSig' = TRUE
    /\ UNCHANGED <<auxVars, coreVars, convVars, concVars, mpc, conf, doneCalls, disk, tmp>>

\* how many times the deferred call of line 196 invokes done on return
deferredDoneTwice(c) == IF c.done THEN 2 ELSE 0
deferredDone(c) == IF c.done THEN 1 ELSE 0

\* the cases of the select at line 218 that can proceed
selectReadyTickOnly(sig) == {"tick"}
selectReady(sig) == (IF sig THEN {"stop"} ELSE {}) \cup {"tick"}

\* lines 219-220: case <-l.stopc: return
RunStop ==
    /\ mpc = "select"
    /\ "stop" \in selectReady(stopSig)
    /\ mpc' = "exited"
    /\ doneCalls' = doneCalls + deferredDone(conf)
    /\ UNCHANGED <<auxVars, coreVars, convVars, concVars, conf, stopSig, disk, tmp>>

\* line 221: case <-t.C
RunTick ==
    /\ mpc = "select"
    /\ "tick" \in selectReady(stopSig)
    /\ mpc' = "gc"
    /\ UNCHANGED <<auxVars, coreVars, convVars, concVars, conf, stopSig, doneCalls, disk,
                   tmp>>

\* lines 200-205: l.GC(), then back to the select when no file is named
RunGC ==
    /\ mpc = "gc"
    /\ \E now \in Times : st' = Delete(st, gcExpired(st, now))
    /\ mpc' = IF conf.snapf = "" THEN "select" ELSE "open"
    /\ UNCHANGED <<auxVars, retention, last, proposed, visible, convVars, concVars, conf,
                   stopSig, doneCalls, disk, tmp>>

\* lines 206-209 and 553-566: openReplace creates the temporary file and
\* holds it open, or fails.  Every pass names its file anew; the model keeps
\* the one created last, and one handle for all of them.
RunOpenReplace ==
    /\ mpc = "open"
    /\ \/ tmp' = File(<<>>) /\ handles' = handles \cup {"tmp"} /\ mpc' = "snapshot"
       \/ tmp' = tmp /\ handles' = handles /\ mpc' = "select"
    /\ UNCHANGED <<coreVars, convVars, concVars, conf, stopSig, doneCalls, disk,
                   merged, snapped, rw, operands, out>>

\* a pass that calls f.Close() whether or not Snapshot failed
passAfterSnapshotIgnoresError(err) == "close"

\* lines 211-214: if _, err := l.Snapshot(f); err != nil { return err }
passAfterSnapshot(err) == IF err # Nil THEN "select" ELSE "close"

\* lines 211-213 and 362-375: Snapshot writes every entry to the temporary
\* file, or fails at one of the writes
RunSnapshot ==
    /\ mpc = "snapshot"
    /\ snapped' = st
    /\ \E order \in Orders(st) : \E fail \in 0..Len(order) :
          LET w == Snapshot(order, fail) IN
          /\ tmp' = File(w.recs)
          /\ mpc' = passAfterSnapshot(w.err)
    /\ UNCHANGED <<coreVars, convVars, concVars, conf, stopSig, doneCalls, disk,
                   merged, handles, rw, operands, out>>

\* replaceFile.Close when the named step fails ("none": no step does):
\* whether the handle was closed and whether the file was renamed
replaceFileClose(failed) ==
    [closed |-> failed # "Sync", renamed |-> failed = "none"]

\* lines 214 and 542-550: Sync, Close, then Rename onto the snapshot path
RunClose ==
    /\ mpc = "close"
    /\ \E failed \in {"none", "Sync", "Close", "Rename"} :
          LET c == replaceFileClose(failed) IN
          /\ handles' = IF c.closed THEN handles \ {"tmp"} ELSE handles
          /\ IF c.renamed
             THEN disk' = tmp /\ tmp' = NoFile
             ELSE UNCHANGED <<disk, tmp>>
    /\ mpc' = "select"
    /\ UNCHANGED <<coreVars, convVars, concVars, conf, stopSig, doneCalls,
                   merged, snapped, rw, operands, out>>

\* The alert pipeline logs a notification while the loop runs.
Notify ==
    \E r \in Receivers, gkey \in GroupKeys, ghash \in GroupHashes, now \in Times :
        /\ st' = log(st, r, gkey, ghash, FALSE, now, retention)
        /\ UNCHANGED <<auxVars, retention, last, proposed, visible, convVars, concVars,
                       maintVars>>

NextMaint ==
    \/ RunStart
    \/ Stop
    \/ RunStop
    \/ RunTick
    \/ RunGC
    \/ RunOpenReplace
    \/ RunSnapshot
    \/ RunClose
    \/ Notify

\* Every step of a pass finishes, and the select does not starve the stop
\* case: a case that is ready again and again is chosen eventually.
MaintFairness ==
    /\ WF_vars(RunStart)
    /\ WF_vars(RunGC)
    /\ WF_vars(RunOpenReplace)
    /\ WF_vars(RunSnapshot)
    /\ WF_vars(RunClose)
    /\ SF_vars(RunStop)

SpecMaint == InitMaint /\ [][NextMaint]_vars /\ MaintFairness

\* run() is in its loop
Running == mpc \in {"select", "gc", "open", "snapshot", "close"}
InPass == mpc \in {"gc", "open", "snapshot", "close"}

\* ------------------------------------------------- concurrent callers
\* Each thread makes one LogActive or LogResolved call, step by step.
\* line 254: now := l.now(), with the call's arguments
LogNow(t) ==
    /\ pc[t] = "idle"
    /\ \E r \in Receivers, gkey \in GroupKeys, ghash \in GroupHashes,
          resolved \in BOOLEAN, now \in Times :
          call' = [call EXCEPT ![t] = [recv |-> r, gkey |-> gkey, hash |-> ghash,
                                       resolved |-> resolved, now |-> now,
                                       err |-> Nil]]
    /\ pc' = [pc EXCEPT ![t] = "lock"]
    /\ UNCHANGED <<auxVars, coreVars, convVars, mtx, maintVars>>

\* whether l.mtx.Lock() can return for a thread
canLock(m) == m.w = Nil /\ m.r = {}

\* line 257: l.mtx.Lock()
LogLock(t) ==
    /\ pc[t] = "lock"
    /\ canLock(mtx)
    /\ mtx' = [mtx EXCEPT !.w = t]
    /\ pc' = [pc EXCEPT ![t] = "locked"]
    /\ UNCHANGED <<auxVars, coreVars, convVars, call, maintVars>>

\* lines 260-291: the lookup, the comparison and the store
LogStore(t) ==
    /\ pc[t] = "locked"
    /\ st' = log(st, call[t].recv, call[t].gkey, call[t].hash,
                 call[t].resolved, call[t].now, retention)
    /\ pc' = [pc EXCEPT ![t] = "stored"]
    /\ UNCHANGED <<auxVars, retention, last, proposed, visible, convVars, call, mtx,
                   maintVars>>

\* line 258: the deferred l.mtx.Unlock(), and the return
LogUnlock(t) ==
    /\ pc[t] = "stored"
    /\ mtx' = [mtx EXCEPT !.w = Nil]
    /\ pc' = [pc EXCEPT ![t] = "done"]
    /\ UNCHANGED <<auxVars, coreVars, convVars, call, maintVars>>

NextConc ==
    \/ \E t \in Threads : LogNow(t)
    \/ \E t \in Threads : LogLock(t)
    \/ \E t \in Threads : LogStore(t)
    \/ \E t \in Threads : LogUnlock(t)

\* The log holds nothing, or an entry written at the earliest clock reading.
InitConc ==
    /\ st \in {EmptyGD} \cup
              {Put(EmptyGD, stateKey(gkey, r), MeshEntry(r, gkey, h, FALSE, 0, 0 + ret)) :
                  r \in Receivers, gkey \in GroupKeys, h \in GroupHashes,
                  ret \in Retentions}
    /\ retention \in Retentions
    /\ \A k \in DOMAIN st : st[k].ExpiresAt = st[k].Entry.Timestamp + retention
    /\ conf = NoMaintenance
    /\ mpc = "returned"
    /\ Idle
    /\ operands = <<>>

SpecConc == InitConc /\ [][NextConc]_vars

\* the key of thread t's call
CallKey(t) == stateKey(call[t].gkey, call[t].recv)

\* the entry thread t's call stores
CallEntry(t) ==
    MeshEntry(call[t].recv, call[t].gkey, call[t].hash, call[t].resolved,
              call[t].now, call[t].now + retention)

\* -------------------------------------------- Merge and mergeDelta
\* the state maps a log can hold: for some of the keys, an entry of the key
StateMaps(ret) ==
    UNION {{m \in [K -> PeerEntries(ret)] : \A k \in K : entryKey(m[k]) = k} :
              K \in SUBSET Keys}

\* Three state maps of logs that run with the same retention.
InitLaws ==
    /\ st = EmptyGD
    /\ retention \in Retentions
    /\ conf = NoMaintenance
    /\ mpc = "returned"
    /\ Idle
    /\ operands \in [a : StateMaps(retention), b : StateMaps(retention),
                      c : StateMaps(retention)]

lawsFrame == <<coreVars, convVars, concVars, maintVars, merged, snapped,
               handles, rw>>

\* a.Merge(b), which updates a in place; out keeps what Merge gives for the
\* operands in either order and grouping (each on clones of the operands)
ApplyMerge ==
    /\ operands # <<>>
    /\ LET a == operands.a
           b == operands.b
           c == operands.c
       IN  /\ out' = <<[op |-> "Merge",
                        ab |-> Merge(a, b), ba |-> Merge(b, a),
                        ab_c |-> Merge(Merge(a, b), c),
                        a_bc |-> Merge(a, Merge(b, c)),
                        a |-> a, aa |-> Merge(a, a)]>>
           /\ operands' = [operands EXCEPT !.a = Merge(a, b)]
    /\ UNCHANGED lawsFrame

\* a.mergeDelta(b), which updates a in place and returns the delta
ApplyMergeDelta ==
    /\ operands # <<>>
    /\ LET m == mergeDelta(operands.a, operands.b) IN
       /\ out' = <<[op |-> "mergeDelta", before |-> operands.a,
                    other |-> operands.b, after |-> m.gd, delta |-> m.delta]>>
       /\ operands' = [operands EXCEPT !.a = m.gd]
    /\ UNCHANGED lawsFrame

NextLaws ==
    \/ ApplyMerge
    \/ ApplyMergeDelta

SpecLaws == InitLaws /\ [][NextLaws]_vars

\* --------------------------------------------------- Encode, applied
\* The maps handed to Encode: any of the short key "g1" and the long keys,
\* one entry each, every entry smaller than maxSize on the wire.
EncodeInputs(ret) ==
    {[k \in {stateKey(g, "r1") : g \in G} |->
        CHOOSE e \in {MeshEntry("r1", g, "h1", FALSE, 0, 0 + ret) : g \in G} :
            entryKey(e) = k] :
      G \in SUBSET ({"g1"} \cup LongKeys)}

InitEncode ==
    /\ st = EmptyGD
    /\ retention \in Retentions
    /\ conf = NoMaintenance
    /\ mpc = "returned"
    /\ Idle
    /\ operands \in [a : EncodeInputs(retention)]

\* a.Encode(), the range visiting the entries in some order
ApplyEncode ==
    /\ operands # <<>>
    /\ \E order \in Orders(operands.a) :
          out' = <<[op |-> "Encode", gd |-> operands.a, blocks |-> Encode(order)]>>
    /\ UNCHANGED <<lawsFrame, operands>>

NextEncode == ApplyEncode

SpecEncode == InitEncode /\ [][NextEncode]_vars

\* ------------------------------------------------ readers and writers
\* Each thread makes one call after another on the same log, step by step:
\* it takes its arguments (and reads the clock), takes l.mtx, works on l.st,
\* releases l.mtx and returns.
Readers == {"Query", "Snapshot", "Gossip"}
Writers == {"log", "GC", "OnGossip", "OnGossipBroadcast", "loadSnapshot"}

\* The calls a thread can make.  Query has both parameters set and the
\* payloads decode (the other calls return before they touch l.mtx); a payload
\* or snapshot file holds at most one record.
Calls(ret) ==
    {[op |-> "log", recv |-> r, gkey |-> k, hash |-> h, resolved |-> res, now |-> now] :
        r \in Receivers, k \in GroupKeys, h \in GroupHashes, res \in BOOLEAN,
        now \in Times}
    \cup {[op |-> "GC", now |-> now] : now \in Times}
    \cup {[op |-> o, gd |-> decodeGossipData(m).gd] :
            o \in {"OnGossip", "OnGossipBroadcast"},
            m \in {x \in Payloads[ret] : ~x.bad /\ Len(x.recs) <= 1}}
    \cup {[op |-> "loadSnapshot", recs |-> f.recs] :
            f \in SnapshotFiles(ret) \ {NoFile}}
    \cup {[op |-> "Query", recv |-> r, gkey |-> k] :
            r \in Receivers, k \in GroupKeys}
    \cup {[op |-> "Snapshot"], [op |-> "Gossip"]}

\* what the other groups of variables hold while threads call the log
rwFrame == <<retention, last, proposed, visible, convVars, pc, call, maintVars,
             merged, snapped, handles, operands, out>>

\* line 254, 296, 391, 406: the arguments are taken, the clock is read, the
\* payload is decoded, all before the lock
Begin(t) ==
    /\ rw[t] = NoOp
    /\ \E c \in Calls(retention) :
          rw' = [rw EXCEPT ![t] = [c |-> c, op |-> c.op, phase |-> "lock",
                                   seen |-> EmptyGD, acc |-> <<>>]]
    /\ UNCHANGED <<st, mtx, rwFrame>>

\* RLock that does not wait for the writer
canRLockAlways(m) == TRUE

\* whether l.mtx.RLock() can return for a thread
canRLock(m) == m.w = Nil

\* l.mtx.Lock() in the writers, l.mtx.RLock() in the readers; seen is l.st
\* at this instant
Acquire(t) ==
    /\ rw[t] # NoOp
    /\ rw[t].phase = "lock"
    /\ IF rw[t].op \in Readers
       THEN canRLock(mtx) /\ mtx' = [mtx EXCEPT !.r = @ \cup {t}]
       ELSE canLock(mtx) /\ mtx' = [mtx EXCEPT !.w = t]
    /\ rw' = [rw EXCEPT ![t].phase = "locked", ![t].seen = st]
    /\ UNCHANGED <<st, rwFrame>>

\* the state map a writer leaves
writes(gd, c, ret) ==
    IF c.op = "log"
    THEN log(gd, c.recv, c.gkey, c.hash, c.resolved, c.now, ret)
    ELSE IF c.op = "GC" THEN Delete(gd, gcExpired(gd, c.now))
    ELSE IF c.op = "loadSnapshot" THEN loadSnapshot(c.recs)
    ELSE mergeDelta(gd, c.gd).gd

\* the keys of the entries a reader has visited
visited(acc) == {entryKey(acc[i]) : i \in DOMAIN acc}

\* A writer changes l.st; Query looks its key up.
Work(t) ==
    /\ rw[t] # NoOp
    /\ rw[t].phase = "locked"
    /\ rw[t].op \in Writers \cup {"Query"}
    /\ IF rw[t].op = "Query"
       THEN /\ rw' = [rw EXCEPT ![t].phase = "unlock",
                          ![t].acc = queryResult(st, rw[t].c.recv, rw[t].c.gkey).ret]
            /\ st' = st
       ELSE /\ rw' = [rw EXCEPT ![t].phase = "unlock"]
            /\ st' = writes(st, rw[t].c, retention)
    /\ UNCHANGED <<mtx, rwFrame>>

\* lines 367-373, 383-385: Snapshot and Gossip range over l.st, one entry
\* at a time
Visit(t) ==
    /\ rw[t] # NoOp
    /\ rw[t].phase = "locked"
    /\ rw[t].op \in {"Snapshot", "Gossip"}
    /\ IF DOMAIN st \subseteq visited(rw[t].acc)
       THEN rw' = [rw EXCEPT ![t].phase = "unlock"]
       ELSE \E k \in DOMAIN st \ visited(rw[t].acc) :
               rw' = [rw EXCEPT ![t].acc = Append(@, st[k])]
    /\ UNCHANGED <<st, mtx, rwFrame>>

\* the deferred Unlock / RUnlock, and the return
Release(t) ==
    /\ rw[t] # NoOp
    /\ rw[t].phase = "unlock"
    /\ mtx' = IF rw[t].op \in Readers
              THEN [mtx EXCEPT !.r = @ \ {t}]
              ELSE [mtx EXCEPT !.w = Nil]
    /\ rw' = [rw EXCEPT ![t] = NoOp]
    /\ UNCHANGED <<st, rwFrame>>

NextRW ==
    \/ \E t \in Threads : Begin(t)
    \/ \E t \in Threads : Acquire(t)
    \/ \E t \in Threads : Work(t)
    \/ \E t \in Threads : Visit(t)
    \/ \E t \in Threads : Release(t)

SpecRW == Init /\ [][NextRW]_vars

\* thread t is between taking and releasing l.mtx
InCS(t) == rw[t] # NoOp /\ rw[t].phase \in {"locked", "unlock"}

\* --------------------------------------------------------------- claims
IsLog(op) == op \in {"LogActive", "LogResolved"}

\* C1 (SpecMerge): after any sequence of LogActive/LogResolved, OnGossip and
\* OnGossipBroadcast calls, a key has an entry iff something was proposed for
\* it, and the entry carries the largest timestamp proposed for the key.
C1_StoredIsMaxProposed ==
    \A k \in Keys :
        IF proposed[k] = NoTime
        THEN k \notin DOMAIN st
        ELSE k \in DOMAIN st /\ st[k].Entry.Timestamp = proposed[k]

\* C1 witness: a broadcast replaced one key with the newest timestamp while
\* another key, proposed earlier, stayed as it was.
C1_Witness ==
    /\ last.op = "OnGossipBroadcast"
    /\ \E k \in DOMAIN last.delta :
        /\ st[k].Entry.Timestamp = MaxTime
        /\ proposed[k] = MaxTime
    /\ \E k \in DOMAIN st \ DOMAIN last.delta : proposed[k] < MaxTime

\* C2 as claimed (Spec): the map never holds an entry for k with a timestamp
\* smaller than one it held for k before, GC included.
C2_NeverOlderThanSeen ==
    \A k \in DOMAIN st : st[k].Entry.Timestamp >= visible[k]

\* C2 amended (Spec): while a key stays in the map from one state to the
\* next, its timestamp does not decrease.
C2_MonotoneWhilePresent ==
    [][\A k \in Keys :
          (k \in DOMAIN st /\ k \in DOMAIN st')
              => st'[k].Entry.Timestamp >= st[k].Entry.Timestamp]_vars

\* C2 witness: a call with an older clock reading left the newer entry.
C2_Witness ==
    /\ IsLog(last.op)
    /\ LastKey \in DOMAIN st
    /\ st[LastKey].Entry.Timestamp > last.now
    /\ visible[LastKey] = st[LastKey].Entry.Timestamp

\* C3 as claimed (SpecConv): once exchanging full states changes neither
\* replica, the two state maps are equal, entry by entry.
C3_QuiescedAgree == Quiesced => cluster["A"] = cluster["B"]

\* C4 (Spec): LogActive/LogResolved for key k at clock reading now leaves the
\* map unchanged, without error, when k's stored timestamp is after now;
\* otherwise k's entry becomes exactly the new entry and no other key changes.
C4_AppendEffect ==
    [][IsLog(last'.op) =>
        LET k == stateKey(last'.gkey, last'.recv)
            now == last'.now
        IN  /\ last'.err = Nil
            /\ IF k \in DOMAIN st /\ st[k].Entry.Timestamp > now
               THEN st' = st
               ELSE /\ DOMAIN st' = DOMAIN st \cup {k}
                    /\ st'[k] = [Entry |-> [Receiver |-> last'.recv,
                                            GroupKey |-> last'.gkey,
                                            GroupHash |-> last'.hash,
                                            Resolved |-> (last'.op = "LogResolved"),
                                            Timestamp |-> now],
                                 ExpiresAt |-> now + retention]
                    /\ \A j \in DOMAIN st \ {k} : st'[j] = st[j]]_vars

\* C4 witness: LogResolved with an older clock reading was a no-op on a newer
\* active entry.
C4_Witness ==
    /\ last.op = "LogResolved"
    /\ LastKey \in DOMAIN st
    /\ st[LastKey].Entry.Timestamp > last.now
    /\ ~st[LastKey].Entry.Resolved

\* C5 (Spec): GC at clock reading T deletes exactly the entries with
\* expires_at <= T, keeps the others as they were, and returns the number it
\* deleted; right after it no entry has expires_at <= T.
C5_GCExact ==
    [][last'.op = "GC" =>
        LET T == last'.now IN
        /\ DOMAIN st' = {k \in DOMAIN st : st[k].ExpiresAt > T}
        /\ \A k \in DOMAIN st' : st'[k] = st[k] /\ st'[k].ExpiresAt > T
        /\ last'.n = Cardinality(DOMAIN st) - Cardinality(DOMAIN st')
        /\ last'.err = Nil]_vars

\* C5 witness: a GC deleted one entry and kept another.
C5_Witness ==
    /\ last.op = "GC"
    /\ last.n = 1
    /\ \E k \in DOMAIN st : st[k].ExpiresAt > last.now

\* C6 (SpecLocal): an entry appended at clock t survives a GC at clock T iff
\* t + retention > T.
C6_RetentionBoundary ==
    [][last'.op = "GC" =>
        /\ \A k \in DOMAIN st :
              (k \in DOMAIN st') <=>
                  (st[k].Entry.Timestamp + retention > last'.now)
        /\ last'.n = Cardinality({k \in DOMAIN st :
                        st[k].Entry.Timestamp + retention <= last'.now})]_vars

\* C6 witness: with retention 1, a GC one unit after the append removed the
\* entry (count 1) while an entry appended at the GC's clock stayed.
C6_Witness ==
    /\ last.op = "GC"
    /\ retention = 1
    /\ last.now = 1
    /\ last.n = 1
    /\ \E k \in DOMAIN st : st[k].Entry.Timestamp = 1

\* C7 (Spec): Query without receiver or group key fails with the bad-query
\* error; with both it returns the one stored entry of the key, or ErrNotFound
\* when the key is absent; the map is unchanged in every case.
C7_QueryOutcome ==
    [][last'.op = "Query" =>
        /\ st' = st
        /\ ErrNotFound # ErrBadQuery
        /\ IF last'.recv = Nil \/ last'.gkey = Nil
           THEN last'.err = ErrBadQuery /\ last'.ret = <<>>
           ELSE LET k == stateKey(last'.gkey, last'.recv) IN
                IF k \in DOMAIN st
                THEN last'.err = Nil /\ last'.ret = <<st[k].Entry>>
                ELSE last'.err = ErrNotFound /\ last'.ret = <<>>]_vars

\* C7 witness: a Query for an absent key returned ErrNotFound while another
\* key was stored.
C7_Witness ==
    /\ last.op = "Query"
    /\ last.err = ErrNotFound
    /\ last.recv # Nil /\ last.gkey # Nil
    /\ DOMAIN st # {}

\* C8 (SpecConc): when two threads have appended to the same key, neither
\* returned an error, the key's entry is the call's with the later clock
\* reading, and with equal readings it is one of the two calls' entries.
C8_ConcurrentAppends ==
    (/\ \A t \in Threads : pc[t] = "done"
     /\ CallKey("t1") = CallKey("t2"))
    => /\ \A t \in Threads : call[t].err = Nil
       /\ CallKey("t1") \in DOMAIN st
       /\ \A t \in Threads, u \in Threads :
             call[t].now < call[u].now => st[CallKey(u)] = CallEntry(u)
       /\ st[CallKey("t1")] \in {CallEntry(t) : t \in Threads}
       /\ mtx = Unlocked

\* C8 witness: the thread with the later clock reading stored first; the
\* other thread, holding the lock after it, left that entry in place.
C8_Witness ==
    \E t \in Threads, u \in Threads :
        /\ pc[t] = "done" /\ pc[u] = "stored"
        /\ CallKey(t) = CallKey(u)
        /\ call[u].now < call[t].now
        /\ call[u].resolved # call[t].resolved
        /\ st[CallKey(t)] = CallEntry(t)

\* C9 as claimed (SpecMaint): with a snapshot path set, done is invoked only
\* by the step that completes a maintenance pass, the final one; run() never
\* goes from receiving the signal straight to done.
C9_FinalPassBeforeDone ==
    [][(doneCalls' > doneCalls /\ conf.snapf # "") => InPass]_vars

\* C10 (SpecMaint): once the stop channel is readable the running loop exits;
\* done has been invoked exactly once then, if one was given; the loop leaves
\* only from the select, never in the middle of a pass; and nothing of the
\* loop runs after it has exited.
C10_Shutdown ==
    /\ (stopSig /\ Running) ~> (mpc = "exited")
    /\ [](/\ mpc = "exited" => doneCalls = (IF conf.done THEN 1 ELSE 0)
          /\ mpc # "exited" => doneCalls = 0)
    /\ [][/\ InPass => mpc' # "exited"
          /\ mpc = "exited" => UNCHANGED <<mpc, doneCalls, disk, tmp>>]_vars

\* C10 witness: the loop has exited on the signal after a pass replaced the
\* snapshot file, and done was invoked.
C10_Witness ==
    /\ mpc = "exited"
    /\ stopSig
    /\ doneCalls = 1
    /\ disk.exists /\ disk.recs # <<>>
    /\ DOMAIN st # {}

\* C11 (SpecMaint): when the interval is zero or no stop channel was given,
\* run() never enters its loop: no pass (GC, snapshot) runs, no temporary
\* file is created, the file at the snapshot path stays as New() found it,
\* and done is never invoked, whatever is signalled later.
C11_LoopNeverStarts ==
    /\ []((conf.runInterval = 0 \/ ~conf.stopc) =>
            /\ ~Running
            /\ mpc # "exited"
            /\ doneCalls = 0
            /\ tmp = NoFile)
    /\ [][(conf.runInterval = 0 \/ ~conf.stopc) => disk' = disk]_vars

\* C11 witness: with interval zero, a done callback and a snapshot path, run()
\* has returned; the stop channel was closed afterwards and entries were
\* logged, and the snapshot file is still the one New() loaded.
C11_Witness ==
    /\ conf.runInterval = 0 /\ conf.stopc /\ conf.done /\ conf.snapf # ""
    /\ mpc = "returned"
    /\ stopSig
    /\ disk.exists
    /\ Cardinality(DOMAIN st) > Len(disk.recs)

\* the last-writer-wins merge of od into gd: a key takes od's entry when gd
\* has none or an older one
LWW(gd, od) ==
    [k \in DOMAIN gd \cup DOMAIN od |->
        IF k \notin DOMAIN gd THEN od[k]
        ELSE IF k \in DOMAIN od /\ od[k].Entry.Timestamp > gd[k].Entry.Timestamp
        THEN od[k]
        ELSE gd[k]]

\* C12 (Spec): in every reachable state and for every payload, OnGossip and
\* OnGossipBroadcast leave the same state map, the last-writer-wins merge of
\* the decoded entries; OnGossip returns nil exactly when the delta is empty
\* and else the delta, OnGossipBroadcast always returns the delta map; a
\* payload that fails to decode gives an error and an unchanged map.  Every
\* call made behaves so.
C12_GossipCallbacks ==
    /\ [](\A msg \in Payloads[retention] :
            LET a == OnGossipResult(st, msg)
                b == OnGossipBroadcastResult(st, msg)
                dec == decodeGossipData(msg)
            IN  IF dec.err # Nil
                THEN /\ a.err # Nil /\ b.err # Nil
                     /\ a.st = st /\ b.st = st
                ELSE /\ a.err = Nil /\ b.err = Nil
                     /\ a.st = b.st
                     /\ a.st = LWW(st, dec.gd)
                     /\ a.isnil <=> (DOMAIN b.delta = {})
                     /\ a.isnil <=> (a.st = st)
                     /\ ~a.isnil => (a.delta = b.delta /\ DOMAIN a.delta # {})
                     /\ ~b.isnil
                     /\ \A k \in DOMAIN b.delta : b.st[k] = b.delta[k])
    /\ [][(last'.op \in {"OnGossip", "OnGossipBroadcast"}) =>
            IF last'.err # Nil
            THEN st' = st /\ last'.isnil
            ELSE /\ (DOMAIN last'.delta = {}) <=> (st' = st)
                 /\ last'.isnil <=> (last'.op = "OnGossip" /\ st' = st)
                 /\ \A k \in DOMAIN last'.delta : st'[k] = last'.delta[k]]_vars

\* C12 witness: a broadcast whose entries were no newer than the stored ones
\* returned an empty delta that is not nil.
C12_Witness ==
    /\ last.op = "OnGossipBroadcast"
    /\ last.err = Nil
    /\ DOMAIN last.delta = {}
    /\ ~last.isnil
    /\ Cardinality(DOMAIN st) = 2

\* C13 (SpecDup): when a payload that was merged before is delivered again,
\* with any appends and merges but no GC in between, the state map stays as it
\* is and the delta is empty: OnGossip returns nil, OnGossipBroadcast an empty
\* map.
C13_DuplicateSuppressed ==
    [][(~merged.again /\ merged'.again) =>
        /\ st' = st
        /\ last'.err = Nil
        /\ DOMAIN last'.delta = {}
        /\ last'.isnil <=> (last'.op = "OnGossip")]_vars

\* C13 witness: OnGossip got a payload a second time and returned nil, after
\* an entry of the payload had been replaced in the map in between.
C13_Witness ==
    /\ merged.again
    /\ last.op = "OnGossip"
    /\ last.isnil
    /\ \E i \in DOMAIN merged.msg.recs :
          /\ entryKey(merged.msg.recs[i]) \in DOMAIN st
          /\ st[entryKey(merged.msg.recs[i])] # merged.msg.recs[i]

\* C14 (SpecSnap): for every state map reached through LogActive,
\* LogResolved, OnGossip, OnGossipBroadcast and GC, loading what a Snapshot
\* without write error wrote into a fresh log gives a state map with the same
\* keys and an equal entry under each.
C14_SnapshotRoundTrip ==
    [][(last'.op = "loadSnapshot" /\ out[1].err = Nil) =>
        /\ DOMAIN st' = DOMAIN st
        /\ \A k \in DOMAIN st : st'[k] = st[k]
        /\ Len(out[1].recs) = Cardinality(DOMAIN st)]_vars

\* C14 witness: a log restored from a snapshot of two entries, one active and
\* one resolved.
C14_Witness ==
    /\ last.op = "loadSnapshot"
    /\ Cardinality(DOMAIN st) = 2
    /\ \E k \in DOMAIN st : st[k].Entry.Resolved
    /\ \E k \in DOMAIN st : ~st[k].Entry.Resolved

\* C15 (SpecMaint): the file at the snapshot path changes only in the last
\* step of a pass, by the rename of a temporary file that holds every entry
\* of the state map Snapshot iterated, once each; a pass that fails at any
\* step leaves the file as it was.
C15_AtomicReplace ==
    [][disk' # disk =>
        /\ mpc = "close"
        /\ disk' = tmp
        /\ disk'.exists
        /\ loadSnapshot(disk'.recs) = snapped
        /\ Len(disk'.recs) = Cardinality(DOMAIN snapped)]_vars

\* C15 witness: after a pass replaced the file with a snapshot of two
\* entries, a later pass failed in Snapshot after its first write: the
\* temporary file is partial and the file at the path still holds both.
C15_Witness ==
    /\ mpc = "select"
    /\ disk.exists /\ Len(disk.recs) = 2
    /\ tmp.exists /\ Len(tmp.recs) = 1
    /\ Cardinality(DOMAIN snapped) = 2

\* C20 as claimed (SpecMaint): whenever run() is not inside a maintenance
\* pass, the log holds no file open: every pass, failed or not, has closed
\* the temporary file it created.
C20_NoHandleLeftOpen == ~InPass => handles = {}

\* C16 (SpecRW): while a writer (LogActive/LogResolved, GC, OnGossip,
\* OnGossipBroadcast, loadSnapshot) is between Lock and Unlock no other call
\* is inside its critical section; the state map does not change while a
\* reader is inside its own; and when Snapshot, Gossip or Query returns, what
\* it wrote, copied or returned is the state map as it was when the call took
\* the lock: every entry once for Snapshot and Gossip, the key's entry for
\* Query.
C16_ReadersNeverOverlapWriters ==
    /\ [](\A t \in Threads : InCS(t) =>
            /\ rw[t].op \in Writers => \A u \in Threads \ {t} : ~InCS(u)
            /\ rw[t].op \in Readers => st = rw[t].seen)
    /\ [][\A t \in Threads :
            (InCS(t) /\ rw'[t] = NoOp) =>
                /\ rw[t].op \in {"Snapshot", "Gossip"} =>
                      /\ Len(rw[t].acc) = Cardinality(DOMAIN rw[t].seen)
                      /\ \A k \in DOMAIN rw[t].seen :
                            \E i \in DOMAIN rw[t].acc : rw[t].acc[i] = rw[t].seen[k]
                /\ rw[t].op = "Query" =>
                      rw[t].acc = queryResult(rw[t].seen, rw[t].c.recv,
                                              rw[t].c.gkey).ret]_vars

\* C16 witness: a Snapshot has written one of two entries and a Query is
\* inside its critical section at the same time.
C16_Witness ==
    \E t \in Threads, u \in Threads :
        /\ InCS(t) /\ rw[t].op = "Snapshot"
        /\ Len(rw[t].acc) = 1 /\ Cardinality(DOMAIN st) = 2
        /\ InCS(u) /\ rw[u].op = "Query" /\ rw[u].phase = "unlock"
        /\ rw[u].acc # <<>>

\* C17 as claimed (SpecLaws): for all state maps A, B, C,
\* Merge(A,B) = Merge(B,A), Merge(Merge(A,B),C) = Merge(A,Merge(B,C)) and
\* Merge(A,A) = A, entries compared whole.
C17_MergeLaws ==
    (Len(out) = 1 /\ out[1].op = "Merge") =>
        /\ out[1].ab = out[1].ba
        /\ out[1].ab_c = out[1].a_bc
        /\ out[1].aa = out[1].a

\* C18 (SpecLaws): a.mergeDelta(b) leaves a as a.Merge(b) would, and the
\* map D it returns holds exactly the entries of b whose key was absent from
\* a or stored in a with a strictly smaller timestamp; merging D into the
\* former a gives the same map as merging b, every key of D maps to D's entry
\* afterwards, and D is empty iff a is unchanged.
C18_MergeDeltaRefinesMerge ==
    (Len(out) = 1 /\ out[1].op = "mergeDelta") =>
        LET a == out[1].before
            b == out[1].other
            D == out[1].delta
            after == out[1].after
        IN  /\ after = Merge(a, b)
            /\ after = operands.a
            /\ DOMAIN D = {k \in DOMAIN b :
                              \/ k \notin DOMAIN a
                              \/ a[k].Entry.Timestamp < b[k].Entry.Timestamp}
            /\ \A k \in DOMAIN D : D[k] = b[k] /\ after[k] = D[k]
            /\ Merge(a, D) = Merge(a, b)
            /\ (DOMAIN D = {}) <=> (after = a)

\* C18 witness: of the two entries merged in, one was inserted and is in the
\* delta, the other met an incumbent of the same timestamp and another
\* payload and is not.
C18_Witness ==
    /\ Len(out) = 1 /\ out[1].op = "mergeDelta"
    /\ Cardinality(DOMAIN out[1].other) = 2
    /\ Cardinality(DOMAIN out[1].delta) = 1
    /\ \E k \in DOMAIN out[1].before :
          /\ out[1].other[k] # out[1].before[k]
          /\ out[1].other[k].Entry.Timestamp = out[1].before[k].Entry.Timestamp
          /\ out[1].after[k] = out[1].before[k]

\* C19 as claimed (SpecEncode): Encode returns blocks such that every entry
\* of the map is in exactly one block, no block is larger than maxSize, no
\* block is empty, and an empty map gives no block.
C19_EncodeBlocks ==
    (Len(out) = 1 /\ out[1].op = "Encode") =>
        LET gd == out[1].gd
            blocks == out[1].blocks
        IN  /\ \A k \in DOMAIN gd :
                  Cardinality({<<i, j>> \in (DOMAIN blocks) \X (1..Cardinality(DOMAIN gd)) :
                                  j \in DOMAIN blocks[i] /\ blocks[i][j] = gd[k]}) = 1
            /\ \A i \in DOMAIN blocks :
                  /\ written(blocks[i]) <= maxSize
                  /\ blocks[i] # <<>>
            /\ DOMAIN gd = {} => blocks = <<>>

====
